---- MODULE Spec2Model ----
(***************************************************************************)
(* A model of the SPHinXsys body relations (base_body_relation.cpp) and of *)
(* the particle adaptations (adaptation.cpp / adaptation.h).               *)
(*                                                                         *)
(* Three independent state machines share the module:                      *)
(*   SpecRelation   - a body's particle store and one relation on it       *)
(*                    (inner or contact): configuration memories, the      *)
(*                    parallel reset of current_size_;                     *)
(*   SpecAdaptation - an adaptation policy object and its ratios;          *)
(*   SpecParts      - the body-part to real-body conversion.               *)
(* C++ indices are 0-based; the sequences here are 1-based, so particle    *)
(* num lives at position num + 1.                                          *)
(***************************************************************************)
EXTENDS Integers, Sequences, FiniteSets, TLC

\* ------------------------------------------------------------------ bounds
\* largest real_particles_bound_ the particle store reaches
MaxBound == 3
\* largest number of neighbors the search routine appends to one Neighborhood
MaxNeighbors == 1
\* the sizes of contact_bodies_ that are explored
ContactBodyCounts == {0, 1, 2}

VARIABLES
    \* ---- the relation and the particle store of its body
    relation_kind,            \* "inner" (BaseInnerRelation) or "contact" (BaseContactRelation)
    total_real_particles_,    \* BaseParticles::total_real_particles_
    real_particles_bound_,    \* BaseParticles::real_particles_bound_
    inner_configuration_,     \* ParticleConfiguration of the inner relation
    contact_bodies_,          \* RealBodyVector of the contact relation
    contact_configuration_,   \* one ParticleConfiguration per contact body
    pc,                       \* position of the caller: idle, notified, in a reset
    loop_k,                   \* the k of BaseContactRelation::resetNeighborhoodCurrentSize
    blocks,                   \* the blocked_range pieces of the running parallel_for
    writes,                   \* history: writes[k][num+1] = how often current_size_ was written
    pre,                      \* history: the configuration when the running/last operation began
    last_op,                  \* history: the operation that returned last
    \* ---- the adaptation of a body
    Dimensions,               \* the build's spatial dimension (2-D or 3-D library)
    resolution_ref_,          \* SPHSystem::resolution_ref_ handed to the constructor
    variant,                  \* the dynamic type of the adaptation object
    adaptation,               \* the fields of the adaptation object
    call,                     \* history: the last member function called, its arguments and result
    \* ---- the conversion of body parts to real bodies
    body_parts,               \* the BodyPartVector handed to BodyPartsToRealBodies
    real_bodies,              \* the RealBodyVector being built
    parts_k,                  \* the k of the conversion loop
    parts_pc                  \* idle, looping, returned, or exited

rel_vars == <<relation_kind, total_real_particles_, real_particles_bound_,
              inner_configuration_, contact_bodies_, contact_configuration_,
              pc, loop_k, blocks, writes, pre, last_op>>

adapt_vars == <<Dimensions, resolution_ref_, variant, adaptation, call>>

part_vars == <<body_parts, real_bodies, parts_k, parts_pc>>

vars == <<rel_vars, adapt_vars, part_vars>>

\* the parts of the state a specification does not use stay at these values
IdleAdaptation ==
    /\ Dimensions = 2
    /\ resolution_ref_ = 0
    /\ variant = "none"
    /\ adaptation = <<>>
    /\ call = [op |-> "none"]

IdleParts ==
    /\ body_parts = <<>>
    /\ real_bodies = <<>>
    /\ parts_k = 0
    /\ parts_pc = "idle"

IdleRelation ==
    /\ relation_kind = "none"
    /\ total_real_particles_ = 0
    /\ real_particles_bound_ = 0
    /\ inner_configuration_ = <<>>
    /\ contact_bodies_ = <<>>
    /\ contact_configuration_ = <<>>
    /\ pc = "idle"
    /\ loop_k = 0
    /\ blocks = {}
    /\ writes = <<>>
    /\ pre = <<>>
    /\ last_op = "none"

\* ------------------------------------------------------------ Neighborhood
\* Neighborhood(): a default-constructed neighbor list; of its fields only
\* the counter current_size_ is kept, the one field the relations touch
Neighborhood == [current_size_ |-> 0]

\* the external search routine appends one neighbor record
AppendNeighbor(nb) == [nb EXCEPT !.current_size_ = @ + 1]

\* a resize that drops what the container held (clear(), then resize)
ResizeCleared(vec, n, value) == [i \in 1..n |-> value]

\* container.resize(n, value): keeps the first n elements, pads with value
Resize(vec, n, value) ==
    [i \in 1..n |-> IF i <= Len(vec) THEN vec[i] ELSE value]

\* ------------------------------------------------------------ parallel_for
\* blocked_range<size_t>(lo, hi) split at the cut points: contiguous pieces
\* [begin, end), each with the loop variable num of its body at r.begin()
BlockedRange(lo, hi, cuts) ==
    LET pts == {lo, hi} \cup cuts
    IN  IF lo >= hi THEN {}
        ELSE {[begin |-> a, end |-> CHOOSE b \in pts : b > a /\ \A c \in pts : c > a => b <= c,
               num |-> a] : a \in pts \ {hi}}

\* every way parallel_for may split [0, n)
Splittings(n) == {BlockedRange(0, n, cuts) : cuts \in SUBSET (1..(n - 1))}

\* the loop condition of the body functor: "num != r.end()"
BodyLoopRunsInclusive(b) == b.num # b.end + 1
BodyLoopRuns(b) == b.num # b.end

AllBlocksDone == \A b \in blocks : ~BodyLoopRuns(b)

NoWrites(narrays) == [k \in 1..narrays |-> [i \in 1..real_particles_bound_ |-> 0]]

Snapshot == [inner |-> inner_configuration_, contact |-> contact_configuration_,
             total |-> total_real_particles_, bound |-> real_particles_bound_]
NoSnapshot == [inner |-> <<>>, contact |-> <<>>, total |-> 0, bound |-> 0]

\* ------------------------------------------------- BaseInnerRelation
\* a resize to the number of real particles instead of their bound
InnerResizedToTotal(config, updated_size) ==
    Resize(config, total_real_particles_, Neighborhood)

\* inner_configuration_.resize(updated_size, Neighborhood())
InnerResized(config, updated_size) == Resize(config, updated_size, Neighborhood)

\* a body that indexes with r.begin() instead of num
InnerBodyWriteBegin(config, b) ==
    [config EXCEPT ![b.begin + 1].current_size_ = 0]

\* "inner_configuration_[num].current_size_ = 0" for the num of piece b
InnerBodyWrite(config, b) ==
    [config EXCEPT ![b.num + 1].current_size_ = 0]

InnerUpdateConfigurationMemories ==
    /\ relation_kind = "inner"
    /\ pc = "notified"
    /\ pre' = Snapshot
    /\ inner_configuration_' = InnerResized(inner_configuration_, real_particles_bound_)
    /\ pc' = "idle"
    /\ last_op' = "update"
    /\ UNCHANGED <<relation_kind, total_real_particles_, real_particles_bound_,
                   contact_bodies_, contact_configuration_, loop_k, blocks, writes>>

\* parallel_for(blocked_range<size_t>(0, total_real_particles_), ...) starts
InnerResetBegin ==
    /\ relation_kind = "inner"
    /\ pc = "idle"
    /\ \E bs \in Splittings(total_real_particles_) : blocks' = bs
    /\ writes' = NoWrites(1)
    /\ pre' = Snapshot
    /\ pc' = "inner_par"
    /\ last_op' = "none"
    /\ UNCHANGED <<relation_kind, total_real_particles_, real_particles_bound_,
                   inner_configuration_, contact_bodies_, contact_configuration_, loop_k>>

\* one iteration of the loop body of one piece, on some thread
InnerResetBody ==
    /\ pc = "inner_par"
    /\ \E b \in blocks :
         /\ BodyLoopRuns(b)
         /\ inner_configuration_' = InnerBodyWrite(inner_configuration_, b)
         /\ writes' = [writes EXCEPT ![1][b.num + 1] = @ + 1]
         /\ blocks' = (blocks \ {b}) \cup {[b EXCEPT !.num = @ + 1]}
    /\ UNCHANGED <<relation_kind, total_real_particles_, real_particles_bound_,
                   contact_bodies_, contact_configuration_, pc, loop_k, pre, last_op>>

\* parallel_for returns when every piece is done, and so does the reset
InnerResetReturn ==
    /\ pc = "inner_par"
    /\ AllBlocksDone
    /\ blocks' = {}
    /\ pc' = "idle"
    /\ last_op' = "reset"
    /\ UNCHANGED <<relation_kind, total_real_particles_, real_particles_bound_,
                   inner_configuration_, contact_bodies_, contact_configuration_,
                   loop_k, writes, pre>>

\* ------------------------------------------------- BaseContactRelation
\* contact_configuration_.resize(contact_bodies_.size()), then every
\* contact_configuration_[k].resize(updated_size, Neighborhood())
ContactResized(config, nbodies, updated_size) ==
    LET outer == Resize(config, nbodies, <<>>)
    IN  [k \in 1..nbodies |-> Resize(outer[k], updated_size, Neighborhood)]

\* "contact_configuration_[k][num].current_size_ = 0" for the num of piece b
ContactBodyWrite(config, k, b) ==
    [config EXCEPT ![k + 1][b.num + 1].current_size_ = 0]

ContactUpdateConfigurationMemories ==
    /\ relation_kind = "contact"
    /\ pc = "notified"
    /\ pre' = Snapshot
    /\ contact_configuration_' =
           ContactResized(contact_configuration_, Len(contact_bodies_), real_particles_bound_)
    /\ pc' = "idle"
    /\ last_op' = "update"
    /\ UNCHANGED <<relation_kind, total_real_particles_, real_particles_bound_,
                   inner_configuration_, contact_bodies_, loop_k, blocks, writes>>

\* the call: k = 0
ContactResetBegin ==
    /\ relation_kind = "contact"
    /\ pc = "idle"
    /\ loop_k' = 0
    /\ writes' = NoWrites(Len(contact_bodies_))
    /\ pre' = Snapshot
    /\ pc' = "contact_loop"
    /\ last_op' = "none"
    /\ UNCHANGED <<relation_kind, total_real_particles_, real_particles_bound_,
                   inner_configuration_, contact_bodies_, contact_configuration_, blocks>>

\* "k != contact_bodies_.size()": the parallel_for of contact body k starts
ContactResetLoop ==
    /\ pc = "contact_loop"
    /\ loop_k # Len(contact_bodies_)
    /\ \E bs \in Splittings(total_real_particles_) : blocks' = bs
    /\ pc' = "contact_par"
    /\ UNCHANGED <<relation_kind, total_real_particles_, real_particles_bound_,
                   inner_configuration_, contact_bodies_, contact_configuration_,
                   loop_k, writes, pre, last_op>>

ContactResetBody ==
    /\ pc = "contact_par"
    /\ \E b \in blocks :
         /\ BodyLoopRuns(b)
         /\ contact_configuration_' = ContactBodyWrite(contact_configuration_, loop_k, b)
         /\ writes' = [writes EXCEPT ![loop_k + 1][b.num + 1] = @ + 1]
         /\ blocks' = (blocks \ {b}) \cup {[b EXCEPT !.num = @ + 1]}
    /\ UNCHANGED <<relation_kind, total_real_particles_, real_particles_bound_,
                   inner_configuration_, contact_bodies_, pc, loop_k, pre, last_op>>

\* the parallel_for of contact body k returns; ++k
ContactResetJoin ==
    /\ pc = "contact_par"
    /\ AllBlocksDone
    /\ blocks' = {}
    /\ loop_k' = loop_k + 1
    /\ pc' = "contact_loop"
    /\ UNCHANGED <<relation_kind, total_real_particles_, real_particles_bound_,
                   inner_configuration_, contact_bodies_, contact_configuration_,
                   writes, pre, last_op>>

\* "k == contact_bodies_.size()": the reset returns
ContactResetReturn ==
    /\ pc = "contact_loop"
    /\ loop_k = Len(contact_bodies_)
    /\ pc' = "idle"
    /\ last_op' = "reset"
    /\ UNCHANGED <<relation_kind, total_real_particles_, real_particles_bound_,
                   inner_configuration_, contact_bodies_, contact_configuration_,
                   loop_k, blocks, writes, pre>>

\* ------------------------------------------ the body's particle store
\* the number of real particles changes within the bound (particles are
\* deleted, merged, or buffer particles become real)
ChangeTotalRealParticles ==
    /\ pc = "idle"
    /\ \E n \in 0..real_particles_bound_ :
         /\ n # total_real_particles_
         /\ total_real_particles_' = n
    /\ last_op' = "particles"
    /\ pre' = NoSnapshot
    /\ UNCHANGED <<relation_kind, real_particles_bound_, inner_configuration_,
                   contact_bodies_, contact_configuration_, pc, loop_k, blocks, writes>>

\* the bound grows (splitting creates particles); the body notifies the
\* subscribed relation, whose updateConfigurationMemories runs next
GrowParticleBound ==
    /\ pc = "idle"
    /\ \E n \in (real_particles_bound_ + 1)..MaxBound : real_particles_bound_' = n
    /\ pc' = "notified"
    /\ last_op' = "bound"
    /\ pre' = NoSnapshot
    /\ UNCHANGED <<relation_kind, total_real_particles_, inner_configuration_, contact_bodies_,
                   contact_configuration_, loop_k, blocks, writes>>

\* the search routine appends a neighbor to the Neighborhood of a real particle
SearchAppendNeighbor ==
    /\ pc = "idle"
    /\ \/ /\ relation_kind = "inner"
          /\ \E num \in 0..(total_real_particles_ - 1) :
               /\ inner_configuration_[num + 1].current_size_ < MaxNeighbors
               /\ inner_configuration_' =
                      [inner_configuration_ EXCEPT ![num + 1] = AppendNeighbor(@)]
          /\ UNCHANGED contact_configuration_
       \/ /\ relation_kind = "contact"
          /\ \E k \in 0..(Len(contact_bodies_) - 1), num \in 0..(total_real_particles_ - 1) :
               /\ contact_configuration_[k + 1][num + 1].current_size_ < MaxNeighbors
               /\ contact_configuration_' =
                      [contact_configuration_ EXCEPT ![k + 1][num + 1] = AppendNeighbor(@)]
          /\ UNCHANGED inner_configuration_
    /\ last_op' = "search"
    /\ pre' = NoSnapshot
    /\ UNCHANGED <<relation_kind, total_real_particles_, real_particles_bound_,
                   contact_bodies_, pc, loop_k, blocks, writes>>

\* ------------------------------------------------- construction
\* BaseInnerRelation(real_body) / BaseContactRelation(sph_body, contact_sph_bodies):
\* subscribeToBody(); updateConfigurationMemories() on empty containers
InitRelation ==
    /\ relation_kind \in {"inner", "contact"}
    /\ real_particles_bound_ \in 0..MaxBound
    /\ total_real_particles_ \in 0..real_particles_bound_
    /\ contact_bodies_ \in {[k \in 1..n |-> k] : n \in ContactBodyCounts}
    /\ relation_kind = "inner" => contact_bodies_ = <<>>
    /\ inner_configuration_ =
           IF relation_kind = "inner" THEN InnerResized(<<>>, real_particles_bound_) ELSE <<>>
    /\ contact_configuration_ =
           IF relation_kind = "contact"
           THEN ContactResized(<<>>, Len(contact_bodies_), real_particles_bound_) ELSE <<>>
    /\ pc = "idle"
    /\ loop_k = 0
    /\ blocks = {}
    /\ writes = <<>>
    /\ pre = NoSnapshot
    /\ last_op = "construct"
    /\ IdleAdaptation
    /\ IdleParts

NextRelation ==
    \/ InnerUpdateConfigurationMemories /\ UNCHANGED <<adapt_vars, part_vars>>
    \/ InnerResetBegin /\ UNCHANGED <<adapt_vars, part_vars>>
    \/ InnerResetBody /\ UNCHANGED <<adapt_vars, part_vars>>
    \/ InnerResetReturn /\ UNCHANGED <<adapt_vars, part_vars>>
    \/ ContactUpdateConfigurationMemories /\ UNCHANGED <<adapt_vars, part_vars>>
    \/ ContactResetBegin /\ UNCHANGED <<adapt_vars, part_vars>>
    \/ ContactResetLoop /\ UNCHANGED <<adapt_vars, part_vars>>
    \/ ContactResetBody /\ UNCHANGED <<adapt_vars, part_vars>>
    \/ ContactResetJoin /\ UNCHANGED <<adapt_vars, part_vars>>
    \/ ContactResetReturn /\ UNCHANGED <<adapt_vars, part_vars>>
    \/ ChangeTotalRealParticles /\ UNCHANGED <<adapt_vars, part_vars>>
    \/ GrowParticleBound /\ UNCHANGED <<adapt_vars, part_vars>>
    \/ SearchAppendNeighbor /\ UNCHANGED <<adapt_vars, part_vars>>

SpecRelation == InitRelation /\ [][NextRelation]_vars

\* ------------------------------------------------- claims on the relation
\* the Neighborhood arrays the relation holds: one for an inner relation,
\* one per contact body for a contact relation
HeldArrays(inner, contact) == IF relation_kind = "inner" THEN <<inner>> ELSE contact
Arrays == HeldArrays(inner_configuration_, contact_configuration_)
PreArrays == HeldArrays(pre.inner, pre.contact)

\* C1 as stated: after resetNeighborhoodCurrentSize returns, every
\* Neighborhood the relation holds has current_size_ = 0.
C1_EveryNeighborhoodZero ==
    last_op = "reset" =>
        \A k \in DOMAIN Arrays : \A i \in DOMAIN Arrays[k] : Arrays[k][i].current_size_ = 0

\* C1 as amended: after resetNeighborhoodCurrentSize returns, the Neighborhood
\* of every real particle (num < total_real_particles_) has current_size_ = 0,
\* whatever it was before, and the Neighborhoods from total_real_particles_ up
\* to real_particles_bound_ are as they were before the call.
C1_RealParticlesZero ==
    last_op = "reset" =>
        /\ DOMAIN Arrays = DOMAIN PreArrays
        /\ \A k \in DOMAIN Arrays :
             /\ DOMAIN Arrays[k] = DOMAIN PreArrays[k]
             /\ \A i \in DOMAIN Arrays[k] :
                  IF i <= total_real_particles_
                  THEN Arrays[k][i].current_size_ = 0
                  ELSE Arrays[k][i] = PreArrays[k][i]

\* a reset of a contact relation with two contact bodies has returned; before
\* it a real particle had neighbors in the second array, and a Neighborhood
\* beyond the real particles had some too
C1_Witness ==
    /\ last_op = "reset"
    /\ relation_kind = "contact"
    /\ Len(contact_bodies_) = 2
    /\ \E i \in 1..total_real_particles_ : pre.contact[2][i].current_size_ > 0
    /\ \E i \in (total_real_particles_ + 1)..real_particles_bound_ :
         pre.contact[1][i].current_size_ > 0

\* C2: whenever no bound-change notification is pending (after construction
\* and after every updateConfigurationMemories), the inner container has
\* real_particles_bound_ Neighborhoods and a contact relation holds one array
\* per contact body, each of real_particles_bound_ Neighborhoods.
C2_ConfigurationSized ==
    pc # "notified" =>
        /\ relation_kind = "inner" => Len(inner_configuration_) = real_particles_bound_
        /\ relation_kind = "contact" =>
             /\ Len(contact_configuration_) = Len(contact_bodies_)
             /\ \A k \in DOMAIN contact_configuration_ :
                  Len(contact_configuration_[k]) = real_particles_bound_

\* updateConfigurationMemories of a contact relation with two contact bodies
\* has returned after the bound grew
C2_Witness ==
    /\ last_op = "update"
    /\ relation_kind = "contact"
    /\ Len(contact_bodies_) = 2
    /\ Len(pre.contact[1]) < real_particles_bound_
    /\ Len(contact_configuration_[2]) = real_particles_bound_

\* C3: after updateConfigurationMemories grew the bound from N to M, the
\* entries [0,N) are exactly what they were before the call and the entries
\* [N,M) are default Neighborhoods with current_size_ = 0, in every array.
C3_GrowKeepsAndZeroFills ==
    last_op = "update" =>
        \A k \in DOMAIN Arrays :
            /\ Len(PreArrays[k]) < Len(Arrays[k])
            /\ \A i \in DOMAIN Arrays[k] :
                 IF i <= Len(PreArrays[k])
                 THEN Arrays[k][i] = PreArrays[k][i]
                 ELSE Arrays[k][i] = Neighborhood /\ Arrays[k][i].current_size_ = 0

\* the bound grew from N > 0 to M > N while an old entry held neighbors
C3_Witness ==
    /\ last_op = "update"
    /\ \E k \in DOMAIN Arrays :
         /\ 0 < Len(PreArrays[k])
         /\ Len(PreArrays[k]) < Len(Arrays[k])
         /\ \E i \in DOMAIN PreArrays[k] : PreArrays[k][i].current_size_ > 0

\* the particle indices the pieces of the running parallel_for own
Owned(b) == b.begin .. (b.end - 1)

\* C8: the pieces of a running parallel_for are pairwise disjoint contiguous
\* sub-ranges that cover [0, total_real_particles_); no Neighborhood is ever
\* written twice in one reset; and when the reset returns every real
\* particle's Neighborhood of every array has been written exactly once, no
\* other one was written, and the configuration is the one that depends on
\* the state before the call only, not on the interleaving.
C8_DisjointBlocksOneWriter ==
    /\ pc \in {"inner_par", "contact_par"} =>
         /\ \A b1, b2 \in blocks : b1 # b2 => Owned(b1) \cap Owned(b2) = {}
         /\ \A b \in blocks : b.begin < b.end /\ b.begin <= b.num /\ b.num <= b.end
         /\ UNION {Owned(b) : b \in blocks} = 0..(total_real_particles_ - 1)
    /\ pc \in {"inner_par", "contact_par", "contact_loop"} \/ last_op = "reset" =>
         \A k \in DOMAIN writes : \A i \in DOMAIN writes[k] : writes[k][i] <= 1
    /\ last_op = "reset" =>
         /\ DOMAIN writes = DOMAIN Arrays
         /\ \A k \in DOMAIN writes : \A i \in DOMAIN writes[k] :
              writes[k][i] = IF i <= total_real_particles_ THEN 1 ELSE 0
         /\ \A k \in DOMAIN Arrays :
              Arrays[k] = [i \in DOMAIN PreArrays[k] |->
                             IF i <= pre.total THEN [PreArrays[k][i] EXCEPT !.current_size_ = 0]
                             ELSE PreArrays[k][i]]

\* the parallel_for of the second contact body, split into several pieces,
\* has written all its Neighborhoods, some of which held neighbors
C8_Witness ==
    /\ pc = "contact_par"
    /\ loop_k = 1
    /\ Cardinality(blocks) >= 2
    /\ AllBlocksDone
    /\ \E i \in 1..total_real_particles_ : pre.contact[2][i].current_size_ > 0

\* ==================================================================== Real
\* A Real is held exactly as (n/d) * 2^(e/Dimensions), 0 <= e < Dimensions,
\* n/d in lowest terms with d > 0: the values the adaptation computes are
\* rationals times a Dimensions-th root of a power of two (the spacing of
\* ParticleSplitAndMerge).  Floating-point rounding is not modelled.
\* TLC evaluates an operator's arguments by name, each time they are used;
\* the operations below bind their operands once (x \in {a}) and compute on
\* the bound values.
RECURSIVE Gcd(_, _)
Gcd(a, b) == IF b = 0 THEN a ELSE CHOOSE g \in {Gcd(y, x % y) : x \in {a}, y \in {b}} : TRUE

Abs(x) == IF x < 0 THEN -x ELSE x

RECURSIVE Pow2(_)
Pow2(k) == IF k <= 0 THEN 1 ELSE 2 * Pow2(k - 1)

\* log2 of a power of two; of nothing else
RECURSIVE Log2(_)
Log2(n) == IF n = 1 THEN 0
           ELSE IF n > 1 /\ n % 2 = 0 THEN 1 + Log2(n \div 2)
           ELSE CHOOSE k \in {} : TRUE

\* n/d in lowest terms
Rat(n, d) ==
    CHOOSE r \in {IF x = 0 THEN [n |-> 0, d |-> 1, e |-> 0]
                  ELSE [n |-> (IF y < 0 THEN -x ELSE x) \div g, d |-> Abs(y) \div g, e |-> 0] :
                  x \in {n}, y \in {d}, g \in {Gcd(Abs(n), Abs(d))}} : TRUE

\* (n/d) * 2^(e/Dimensions), normalised
Real(n, d, e) ==
    CHOOSE r \in {IF x = 0 THEN Rat(0, 1)
                  ELSE [Rat(IF q >= 0 THEN x * Pow2(q) ELSE x,
                            IF q >= 0 THEN y ELSE y * Pow2(-q)) EXCEPT !.e = z % Dimensions] :
                  x \in {n}, y \in {d}, z \in {e}, q \in {e \div Dimensions}} : TRUE

Zero == [n |-> 0, d |-> 1, e |-> 0]
One == [n |-> 1, d |-> 1, e |-> 0]
Two == [n |-> 2, d |-> 1, e |-> 0]

RMul(a, b) ==
    CHOOSE r \in {Real(x.n * y.n, x.d * y.d, x.e + y.e) : x \in {a}, y \in {b}} : TRUE
RDiv(a, b) ==
    CHOOSE r \in {Real(x.n * y.d, x.d * y.n, x.e - y.e) : x \in {a}, y \in {b}} : TRUE
RNeg(a) == [a EXCEPT !.n = -@]

\* a + b, for two values with the same root part
RAdd(a, b) ==
    CHOOSE r \in {IF x.n # 0 /\ y.n # 0 /\ x.e # y.e THEN CHOOSE u \in {} : TRUE
                  ELSE Real(x.n * (y.d \div g) + y.n * (x.d \div g), (x.d \div g) * y.d,
                            IF x.n = 0 THEN y.e ELSE x.e) :
                  x \in {a}, y \in {b}, g \in {Gcd(a.d, b.d)}} : TRUE
RSub(a, b) == RAdd(a, RNeg(b))

\* T powerN(const T &a, int n): the product of n factors a
RECURSIVE powerN(_, _)
powerN(a, n) ==
    IF n <= 0 THEN One
    ELSE CHOOSE r \in {RMul(powerN(x, k - 1), x) : x \in {a}, k \in {n}} : TRUE

\* a < b
RECURSIVE RLess(_, _)
RLess(a, b) ==
    \E x \in {a}, y \in {b} :
        IF x.e = y.e
        THEN \E g \in {Gcd(x.d, y.d)} : x.n * (y.d \div g) < y.n * (x.d \div g)
        ELSE IF x.n <= 0 /\ y.n >= 0 THEN TRUE
        ELSE IF x.n >= 0 /\ y.n <= 0 THEN FALSE
        ELSE IF x.n > 0 THEN RLess(powerN(x, Dimensions), powerN(y, Dimensions))
        ELSE RLess(powerN(RNeg(y), Dimensions), powerN(RNeg(x), Dimensions))
RLeq(a, b) == ~RLess(b, a)

\* int(x): truncation toward zero, of a rational
TruncInt(a) ==
    CHOOSE t \in {IF x.n >= 0 THEN x.n \div x.d ELSE -((-x.n) \div x.d) : x \in {a}} : TRUE

\* pow(x, 1.0 / Dimensions), for x a power of two
PowInvDimensions(x) ==
    IF x.e = 0 /\ x.d = 1 THEN Real(1, 1, Log2(x.n)) ELSE CHOOSE r \in {} : TRUE

\* the tolerance Eps, at the scale of the model's volumes
EpsInverse == 100
Eps == Rat(1, EpsInverse)

\* ================================================================== Kernel
\* a kernel of smoothing length h; every kernel type has KernelSize 2
KernelTypes == {"KernelWendlandC2", "KernelCubicBSpline"}
Kernel(type, h) == [type |-> type, h |-> h]
KernelWendlandC2(h) == Kernel("KernelWendlandC2", h)
KernelSize(kernel) == Two
CutOffRadius(kernel) == RMul(KernelSize(kernel), kernel.h)

\* ============================================================ SPHAdaptation
\* largest local_refinement_level handed to a constructor
MaxLevel == 2

ResolutionRefs == {Rat(1, 10), Rat(1, 2)}
SmoothingRatios == {Rat(13, 10), One}
RefinementRatios == {One, Two, Rat(1, 2), Rat(-1, 1)}
Variants == {"SPHAdaptation", "ParticleWithLocalRefinement", "ParticleSplitAndMerge"}

\* a spacing that shrinks by one more part per level, not by halving
MostRefinedSpacingLinear(coarse_particle_spacing, refinement_level) ==
    RDiv(coarse_particle_spacing, Rat(refinement_level + 1, 1))

\* SPHAdaptation::MostRefinedSpacing
MostRefinedSpacing(coarse_particle_spacing, refinement_level) ==
    RDiv(coarse_particle_spacing, powerN(Two, refinement_level))

\* ParticleSplitAndMerge::MostRefinedSpacing
SplitMergeMostRefinedSpacing(coarse_particle_spacing, local_refinement_level) ==
    LET minimum_spacing_particles == powerN(Two, local_refinement_level)
        spacing_ratio == PowInvDimensions(minimum_spacing_particles)
    IN  RDiv(coarse_particle_spacing, spacing_ratio)

\* a call bound to SPHAdaptation::MostRefinedSpacing whatever the dynamic type
NonVirtualMostRefinedSpacing(v, coarse_particle_spacing, refinement_level) ==
    MostRefinedSpacing(coarse_particle_spacing, refinement_level)

\* the virtual call MostRefinedSpacing(...) on an object of dynamic type v
VirtualMostRefinedSpacing(v, coarse_particle_spacing, refinement_level) ==
    IF v = "ParticleSplitAndMerge"
    THEN SplitMergeMostRefinedSpacing(coarse_particle_spacing, refinement_level)
    ELSE MostRefinedSpacing(coarse_particle_spacing, refinement_level)

\* the squared Euclidean norm of a lattice offset (i, j) or (i, j, k)
SquaredNorm(o) ==
    IF Len(o) = 2 THEN o[1] * o[1] + o[2] * o[2]
    ELSE o[1] * o[1] + o[2] * o[2] + o[3] * o[3]

\* "distance < cutoff_radius" for distance = |o| * |spacing|, both sides
\* squared and cleared of their denominators (spacing and cutoff rational):
\* m * (s.n * c.d)^2 < (c.n * s.d)^2, and never when the cutoff is not positive
InsideCutOff(o, lhs_scale, rhs_scale, cutoff_positive) ==
    cutoff_positive /\ SquaredNorm(o) * lhs_scale < rhs_scale

\* the offsets the loops visit: -search_depth .. search_depth on every axis
Visited(search_depth) ==
    LET R == (-search_depth)..search_depth
    IN  IF Dimensions = 2
        THEN {<<i, j>> : i \in R, j \in R}
        ELSE {<<i, j, k>> : i \in R, j \in R, k \in R}

\* SPHAdaptation::computeReferenceNumberDensity(Vec2d) / (Vec3d): the sum of
\* kernel.W(distance, location) over the offsets it includes.  The sum is held
\* as its terms: the kernel, the spacing and the set of lattice offsets summed.
computeReferenceNumberDensity(kernel, particle_spacing) ==
    CHOOSE sigma \in
        {[kernel |-> kernel_ptr, spacing |-> s,
          offsets |-> {o \in Visited(search_depth) :
                          InsideCutOff(o, (s.n * c.d) * (s.n * c.d),
                                       (c.n * s.d) * (c.n * s.d), c.n > 0)}] :
            kernel_ptr \in {kernel},
            s \in {IF particle_spacing.e = 0 THEN particle_spacing ELSE CHOOSE u \in {} : TRUE},
            c \in {CutOffRadius(kernel)},
            search_depth \in {TruncInt(RDiv(CutOffRadius(kernel), particle_spacing)) + 1}} : TRUE

\* SPHAdaptation::SPHAdaptation(resolution_ref, h_spacing_ratio, system_refinement_ratio)
SPHAdaptation(resolution_ref, h_spacing_ratio, system_refinement_ratio) ==
    LET spacing_ref == RDiv(resolution_ref, system_refinement_ratio)
        h_ref == RMul(h_spacing_ratio, spacing_ref)
        kernel == KernelWendlandC2(h_ref)
    IN  [h_spacing_ratio_ |-> h_spacing_ratio,
         system_refinement_ratio_ |-> system_refinement_ratio,
         local_refinement_level_ |-> 0,
         spacing_ref_ |-> spacing_ref,
         h_ref_ |-> h_ref,
         kernel_ptr_ |-> kernel,
         sigma0_ref_ |-> computeReferenceNumberDensity(kernel, spacing_ref),
         spacing_min_ |-> MostRefinedSpacing(spacing_ref, 0),
         h_ratio_max_ |-> powerN(Two, 0),
         minimum_volume_ |-> "absent",
         maximum_volume_ |-> "absent"]

\* ParticleWithLocalRefinement::ParticleWithLocalRefinement; the shape-driven
\* variants construct the same fields
ParticleWithLocalRefinement(resolution_ref, h_spacing_ratio, system_refinement_ratio, local_refinement_level) ==
    LET base == SPHAdaptation(resolution_ref, h_spacing_ratio, system_refinement_ratio)
    IN  [base EXCEPT
           !.local_refinement_level_ = local_refinement_level,
           !.spacing_min_ = MostRefinedSpacing(base.spacing_ref_, local_refinement_level),
           !.h_ratio_max_ = powerN(Two, local_refinement_level)]

\* ParticleSplitAndMerge::ParticleSplitAndMerge
ParticleSplitAndMerge(resolution_ref, h_spacing_ratio, system_resolution_ratio, local_refinement_level) ==
    LET local == ParticleWithLocalRefinement(resolution_ref, h_spacing_ratio,
                                             system_resolution_ratio, local_refinement_level)
        spacing_min == SplitMergeMostRefinedSpacing(local.spacing_ref_, local_refinement_level)
    IN  [local EXCEPT
           !.spacing_min_ = spacing_min,
           !.h_ratio_max_ = RDiv(local.spacing_ref_, spacing_min),
           !.minimum_volume_ = powerN(spacing_min, Dimensions),
           !.maximum_volume_ = powerN(local.spacing_ref_, Dimensions)]

\* the constructor of variant v
Construct(v, resolution_ref, h_spacing_ratio, system_refinement_ratio, level) ==
    IF v = "SPHAdaptation"
    THEN SPHAdaptation(resolution_ref, h_spacing_ratio, system_refinement_ratio)
    ELSE IF v = "ParticleWithLocalRefinement"
    THEN ParticleWithLocalRefinement(resolution_ref, h_spacing_ratio,
                                     system_refinement_ratio, level)
    ELSE ParticleSplitAndMerge(resolution_ref, h_spacing_ratio,
                               system_refinement_ratio, level)

\* a reset that divides the spacing it finds by the new ratio, without
\* taking the old ratio out first
resetAdaptationRatiosNoRescale(a, v, h_spacing_ratio, new_system_refinement_ratio) ==
    LET spacing_ref == RDiv(a.spacing_ref_, new_system_refinement_ratio)
        h_ref == RMul(h_spacing_ratio, spacing_ref)
        kernel == KernelWendlandC2(h_ref)
        spacing_min == VirtualMostRefinedSpacing(v, spacing_ref, a.local_refinement_level_)
    IN  [a EXCEPT
           !.h_spacing_ratio_ = h_spacing_ratio,
           !.spacing_ref_ = spacing_ref,
           !.system_refinement_ratio_ = new_system_refinement_ratio,
           !.h_ref_ = h_ref,
           !.kernel_ptr_ = kernel,
           !.sigma0_ref_ = computeReferenceNumberDensity(kernel, spacing_ref),
           !.spacing_min_ = spacing_min,
           !.h_ratio_max_ = RDiv(RMul(h_ref, spacing_ref), spacing_min)]

\* SPHAdaptation::resetAdaptationRatios on the object a of dynamic type v
resetAdaptationRatios(a, v, h_spacing_ratio, new_system_refinement_ratio) ==
    LET spacing_ref == RDiv(RMul(a.spacing_ref_, a.system_refinement_ratio_),
                            new_system_refinement_ratio)
        h_ref == RMul(h_spacing_ratio, spacing_ref)
        kernel == KernelWendlandC2(h_ref)
        spacing_min == VirtualMostRefinedSpacing(v, spacing_ref, a.local_refinement_level_)
    IN  [a EXCEPT
           !.h_spacing_ratio_ = h_spacing_ratio,
           !.spacing_ref_ = spacing_ref,
           !.system_refinement_ratio_ = new_system_refinement_ratio,
           !.h_ref_ = h_ref,
           !.kernel_ptr_ = kernel,
           !.sigma0_ref_ = computeReferenceNumberDensity(kernel, spacing_ref),
           !.spacing_min_ = spacing_min,
           !.h_ratio_max_ = RDiv(RMul(h_ref, spacing_ref), spacing_min)]

\* ParticleSplitAndMerge::resetAdaptationRatios
SplitMergeResetAdaptationRatios(a, v, h_spacing_ratio, new_system_refinement_ratio) ==
    LET b == resetAdaptationRatios(a, v, h_spacing_ratio, new_system_refinement_ratio)
    IN  [b EXCEPT
           !.minimum_volume_ = powerN(b.spacing_min_, Dimensions),
           !.maximum_volume_ = powerN(b.spacing_ref_, Dimensions)]

\* SPHAdaptation::resetKernel<KernelType>()
resetKernel(a, KernelType) ==
    LET kernel == Kernel(KernelType, a.h_ref_)
    IN  [a EXCEPT
           !.kernel_ptr_ = kernel,
           !.sigma0_ref_ = computeReferenceNumberDensity(kernel, a.spacing_ref_)]

\* a comparison with one minimum volume, not two
isSplitAllowedFromMinimum(a, current_volume) ==
    RLess(RNeg(Eps), RSub(current_volume, a.minimum_volume_))

\* a comparison with the tolerance on the wrong side
isSplitAllowedStrict(a, current_volume) ==
    RLess(Eps, RSub(current_volume, RMul(Two, a.minimum_volume_)))

\* ParticleSplitAndMerge::isSplitAllowed
isSplitAllowed(a, current_volume) ==
    RLess(RNeg(Eps), RSub(current_volume, RMul(Two, a.minimum_volume_)))

\* a comparison without the tolerance
mergeResolutionCheckNoTolerance(a, volume) ==
    RLess(RSub(volume, RMul(Rat(12, 10), powerN(a.spacing_min_, Dimensions))), Zero)

\* ParticleSplitAndMerge::mergeResolutionCheck
mergeResolutionCheck(a, volume) ==
    RLess(RSub(volume, RMul(Rat(12, 10), powerN(a.spacing_min_, Dimensions))), Eps)

\* MinimumDimension(shape.getBounds()) of the shapes handed to createLevelSet:
\* positive, from a twentieth of the finest spacing to many spacings
MinimumDimensions == {Rat(1, 400), Rat(3, 100), Rat(1, 2), Rat(3, 1), Rat(30, 1)}

\* (int)log10(q) of a positive rational q: log10 truncated toward zero
RECURSIVE IntLog10(_)
IntLog10(q) ==
    IF RLeq(Rat(10, 1), q) THEN IntLog10(RDiv(q, Rat(10, 1))) + 1
    ELSE IF RLeq(q, Rat(1, 10)) THEN IntLog10(RMul(q, Rat(10, 1))) - 1
    ELSE 0

\* (int)x of a NaN x is undefined: the conversion instruction of the target
\* gives the most negative int or 0
IntOfNaN == {-2147483647 - 1, 0}

\* SPHAdaptation::createLevelSet: the values total_levels can have, as the int
\* of "(int)log10(...) + 2" before its conversion to size_t.  log10 of a
\* negative ratio is NaN.
createLevelSet(a, minimum_dimension) ==
    LET q == RDiv(minimum_dimension, a.spacing_ref_)
    IN  IF RLess(Zero, q) THEN {IntLog10(q) + 2} ELSE {i + 2 : i \in IntOfNaN}

\* the particle volumes the two checks are asked about: around the multiples
\* of minimum_volume_ the checks compare with, within and beyond the tolerance
Volumes(a) ==
    {RAdd(RMul(c, a.minimum_volume_), RMul(t, Eps)) :
        c \in {One, Rat(12, 10), Two, Rat(3, 1)},
        t \in {Rat(-2, 1), Rat(-1, 1), Rat(-1, 2), Zero, Rat(1, 2), One, Two}}

\* history: the member function called last, with its arguments and result;
\* pre_ratio is system_refinement_ratio_ as the call found it, valid says
\* that every refinement ratio handed to the object so far was positive, and
\* repeat that the call repeats the call before it, arguments included
Constructed(system_refinement_ratio) ==
    [op |-> "constructor", h |-> Zero, ratio |-> system_refinement_ratio, kernel |-> "none",
     volume |-> Zero, result |-> "void", pre_ratio |-> Zero,
     valid |-> RLess(Zero, system_refinement_ratio), repeat |-> FALSE]

Called(op) ==
    [op |-> op, h |-> Zero, ratio |-> Zero, kernel |-> "none", volume |-> Zero,
     result |-> "void", pre_ratio |-> adaptation.system_refinement_ratio_,
     valid |-> call.valid, repeat |-> FALSE]

\* these member functions leave the object as it is: what can follow one is
\* what can follow the state it was called in, so each of them is called last
Queries == {"isSplitAllowed", "mergeResolutionCheck", "createLevelSet"}

\* ---------------------------------------------------------------- actions
ResetAdaptationRatios ==
    /\ variant \in Variants
    /\ call.op \notin Queries
    /\ \E h \in SmoothingRatios, r \in RefinementRatios :
         /\ adaptation' = IF variant = "ParticleSplitAndMerge"
                          THEN SplitMergeResetAdaptationRatios(adaptation, variant, h, r)
                          ELSE resetAdaptationRatios(adaptation, variant, h, r)
         /\ call' = [Called("resetAdaptationRatios") EXCEPT
                       !.h = h, !.ratio = r, !.valid = @ /\ RLess(Zero, r),
                       !.repeat = (call.op = "resetAdaptationRatios"
                                   /\ call.h = h /\ call.ratio = r)]
    /\ UNCHANGED <<Dimensions, resolution_ref_, variant>>

ResetKernel ==
    /\ variant \in Variants
    /\ call.op \notin Queries
    /\ \E K \in KernelTypes :
         /\ adaptation' = resetKernel(adaptation, K)
         /\ call' = [Called("resetKernel") EXCEPT !.kernel = K]
    /\ UNCHANGED <<Dimensions, resolution_ref_, variant>>

IsSplitAllowed ==
    /\ variant = "ParticleSplitAndMerge"
    /\ call.op \notin Queries
    /\ \E V \in Volumes(adaptation) :
         call' = [Called("isSplitAllowed") EXCEPT
                    !.volume = V, !.result = isSplitAllowed(adaptation, V)]
    /\ UNCHANGED <<Dimensions, resolution_ref_, variant, adaptation>>

MergeResolutionCheck ==
    /\ variant = "ParticleSplitAndMerge"
    /\ call.op \notin Queries
    /\ \E V \in Volumes(adaptation) :
         call' = [Called("mergeResolutionCheck") EXCEPT
                    !.volume = V, !.result = mergeResolutionCheck(adaptation, V)]
    /\ UNCHANGED <<Dimensions, resolution_ref_, variant, adaptation>>

\* SPHAdaptation::createLevelSet, called on a shape whose bounds have the
\* minimum dimension minimum_dimension; the level set itself is not held
CreateLevelSet ==
    /\ variant = "SPHAdaptation"
    /\ call.op \notin Queries
    /\ \E minimum_dimension \in MinimumDimensions :
         \E total_levels \in createLevelSet(adaptation, minimum_dimension) :
            call' = [Called("createLevelSet") EXCEPT
                       !.volume = minimum_dimension, !.result = total_levels]
    /\ UNCHANGED <<Dimensions, resolution_ref_, variant, adaptation>>

InitAdaptation ==
    /\ Dimensions \in {2, 3}
    /\ resolution_ref_ \in ResolutionRefs
    /\ variant \in Variants
    /\ \E h \in SmoothingRatios, r \in RefinementRatios,
          level \in IF variant = "SPHAdaptation" THEN {0} ELSE 0..MaxLevel :
         /\ adaptation = Construct(variant, resolution_ref_, h, r, level)
         /\ call = Constructed(r)
    /\ IdleRelation
    /\ IdleParts

NextAdaptation ==
    \/ ResetAdaptationRatios /\ UNCHANGED <<rel_vars, part_vars>>
    \/ ResetKernel /\ UNCHANGED <<rel_vars, part_vars>>
    \/ IsSplitAllowed /\ UNCHANGED <<rel_vars, part_vars>>
    \/ MergeResolutionCheck /\ UNCHANGED <<rel_vars, part_vars>>
    \/ CreateLevelSet /\ UNCHANGED <<rel_vars, part_vars>>

SpecAdaptation == InitAdaptation /\ [][NextAdaptation]_vars

\* ----------------------------------------------- claims on the adaptation
\* C4: after resetAdaptationRatios(h, r), spacing_ref_, h_ref_, sigma0_ref_,
\* spacing_min_ and h_ratio_max_ are those of a fresh construction of the same
\* variant with the same reference resolution, refinement level and (h, r),
\* on a policy that was only ever given positive ratios.
C4_ResetEqualsFreshConstruction ==
    call.op = "resetAdaptationRatios" /\ call.valid =>
        \E fresh \in {Construct(variant, resolution_ref_, call.h, call.ratio,
                                adaptation.local_refinement_level_)} :
            /\ adaptation.spacing_ref_ = fresh.spacing_ref_
            /\ adaptation.h_ref_ = fresh.h_ref_
            /\ adaptation.sigma0_ref_ = fresh.sigma0_ref_
            /\ adaptation.spacing_min_ = fresh.spacing_min_
            /\ adaptation.h_ratio_max_ = fresh.h_ratio_max_

\* C5: in every state reached with positive ratios only,
\* spacing_min_ <= spacing_ref_ and h_ratio_max_ >= 1.
C5_SpacingMinAndRatioMaxBounds ==
    call.valid =>
        /\ RLeq(adaptation.spacing_min_, adaptation.spacing_ref_)
        /\ RLeq(One, adaptation.h_ratio_max_)

\* C6: a resetAdaptationRatios with a refinement ratio <= 0 fails and leaves
\* the policy as it was: its system_refinement_ratio_ is the one the call found.
C6_NonPositiveRatioRejected ==
    call.op = "resetAdaptationRatios" /\ RLeq(call.ratio, Zero) =>
        adaptation.system_refinement_ratio_ = call.pre_ratio

\* C9: isSplitAllowed(V) is true exactly when V - 2 * minimum_volume_ > -Eps:
\* false for V < 2 * minimum_volume_ - Eps, true for V >= 2 * minimum_volume_,
\* and each half of an allowed split is above minimum_volume_ - Eps.
C9_SplitAllowedThreshold ==
    call.op = "isSplitAllowed" =>
        \E V \in {call.volume}, twice \in {RMul(Two, adaptation.minimum_volume_)} :
            /\ call.result = RLess(twice, RAdd(V, Eps))
            /\ RLess(V, RSub(twice, Eps)) => call.result = FALSE
            /\ RLeq(twice, V) => call.result = TRUE
            /\ call.result = TRUE =>
                 RLess(RSub(adaptation.minimum_volume_, Eps), RDiv(V, Two))

\* a split was allowed, within the tolerance, for a volume below twice the
\* minimum volume of a policy that refines
C9_Witness ==
    /\ call.op = "isSplitAllowed"
    /\ call.result = TRUE
    /\ adaptation.local_refinement_level_ > 0
    /\ RLess(call.volume, RMul(Two, adaptation.minimum_volume_))

\* C10 as stated: on a policy built with positive ratios,
\* mergeResolutionCheck(V) is true for V <= 1.2 * minimum_volume_ and false
\* for every V above.
C10_MergeTrueIffAtMost ==
    call.op = "mergeResolutionCheck" /\ call.valid =>
        \E V \in {call.volume}, limit \in {RMul(Rat(12, 10), adaptation.minimum_volume_)} :
            /\ RLeq(V, limit) => call.result = TRUE
            /\ RLess(limit, V) => call.result = FALSE

\* C10 as amended: mergeResolutionCheck(V) is true exactly when
\* V < 1.2 * minimum_volume_ + Eps: true for every V <= 1.2 * minimum_volume_,
\* false for every V >= 1.2 * minimum_volume_ + Eps.
C10_MergeTrueWithinTolerance ==
    call.op = "mergeResolutionCheck" =>
        \E V \in {call.volume}, limit \in {RMul(Rat(12, 10), adaptation.minimum_volume_)} :
            /\ RLeq(V, limit) => call.result = TRUE
            /\ RLeq(RAdd(limit, Eps), V) => call.result = FALSE
            /\ call.result = RLess(V, RAdd(limit, Eps))

\* a volume above 1.2 * minimum_volume_ passed the check, on a policy that refines
C10_Witness ==
    /\ call.op = "mergeResolutionCheck"
    /\ call.result = TRUE
    /\ adaptation.local_refinement_level_ > 0
    /\ RLess(RMul(Rat(12, 10), adaptation.minimum_volume_), call.volume)

\* C11: in every state of a ParticleSplitAndMerge policy, minimum_volume_ is
\* spacing_min_^Dimensions, maximum_volume_ is spacing_ref_^Dimensions, and
\* minimum_volume_ <= maximum_volume_.
C11_VolumesFromCurrentSpacings ==
    variant = "ParticleSplitAndMerge" =>
        /\ adaptation.minimum_volume_ = powerN(adaptation.spacing_min_, Dimensions)
        /\ adaptation.maximum_volume_ = powerN(adaptation.spacing_ref_, Dimensions)
        /\ RLeq(adaptation.minimum_volume_, adaptation.maximum_volume_)

\* C12: a ParticleWithLocalRefinement constructed with level L has
\* spacing_min_ = spacing_ref_ / 2^L and h_ratio_max_ = 2^L; with L = 2,
\* four times spacing_min_ is spacing_ref_ and h_ratio_max_ is 4.
C12_LocalRefinementSpacing ==
    call.op = "constructor" /\ variant = "ParticleWithLocalRefinement" =>
        \E L \in {adaptation.local_refinement_level_} :
            /\ adaptation.spacing_min_ = RDiv(adaptation.spacing_ref_, Rat(Pow2(L), 1))
            /\ adaptation.h_ratio_max_ = Rat(Pow2(L), 1)
            /\ L = 2 =>
                 /\ RMul(Rat(4, 1), adaptation.spacing_min_) = adaptation.spacing_ref_
                 /\ adaptation.h_ratio_max_ = Rat(4, 1)

\* a ParticleWithLocalRefinement was constructed with level 2 and positive ratios
C12_Witness ==
    /\ call.op = "constructor"
    /\ call.valid
    /\ variant = "ParticleWithLocalRefinement"
    /\ adaptation.local_refinement_level_ = 2

\* C13: a resetAdaptationRatios that repeats the call before it, with the
\* same two ratios, leaves spacing_ref_, h_ref_, system_refinement_ratio_,
\* sigma0_ref_, spacing_min_ and h_ratio_max_ as the first call left them.
C13_ResetIdempotent ==
    [][call'.op = "resetAdaptationRatios" /\ call'.repeat =>
         /\ adaptation'.spacing_ref_ = adaptation.spacing_ref_
         /\ adaptation'.h_ref_ = adaptation.h_ref_
         /\ adaptation'.system_refinement_ratio_ = adaptation.system_refinement_ratio_
         /\ adaptation'.sigma0_ref_ = adaptation.sigma0_ref_
         /\ adaptation'.spacing_min_ = adaptation.spacing_min_
         /\ adaptation'.h_ratio_max_ = adaptation.h_ratio_max_]_vars

\* the same rescaling reset ran twice in a row on a policy that refines
C13_Witness ==
    /\ call.op = "resetAdaptationRatios"
    /\ call.repeat
    /\ call.ratio = Two
    /\ adaptation.local_refinement_level_ > 0

\* a sum of kernel values is positive when it has a term: W is positive
\* inside the cutoff radius, and a sum without terms is 0
SumPositive(sigma) == sigma.offsets # {}

\* C14: in every state sigma0_ref_ is the reference number density of the
\* installed kernel and the current spacing_ref_, and it is strictly positive.
C14_Sigma0PositiveAndFresh ==
    /\ adaptation.sigma0_ref_ =
         computeReferenceNumberDensity(adaptation.kernel_ptr_, adaptation.spacing_ref_)
    /\ SumPositive(adaptation.sigma0_ref_)

\* how far beyond the loops' search_depth the lattice is looked at
LatticeMargin == 1

\* the lattice offsets, out to LatticeMargin beyond the search depth of the
\* loops, whose distance |o| * |spacing| is strictly below cutoff_radius
OffsetsBelowCutOff(cutoff_radius, particle_spacing) ==
    LET depth == TruncInt(RDiv(cutoff_radius, particle_spacing)) + 1 + LatticeMargin
        spacing2 == RMul(particle_spacing, particle_spacing)
        cutoff2 == RMul(cutoff_radius, cutoff_radius)
    IN  {o \in Visited(depth) :
            /\ RLess(Zero, cutoff_radius)
            /\ RLess(RMul(Rat(SquaredNorm(o), 1), spacing2), cutoff2)}

Origin == [axis \in 1..Dimensions |-> 0]

\* C15: the offsets computeReferenceNumberDensity sums over are exactly the
\* lattice offsets with norm strictly below the cutoff radius (none of them
\* lies outside the loops' bounds), and the origin is among them.
C15_SumOverOffsetsBelowCutOff ==
    call.op \notin Queries =>
        /\ adaptation.sigma0_ref_.offsets =
             OffsetsBelowCutOff(CutOffRadius(adaptation.kernel_ptr_), adaptation.spacing_ref_)
        /\ Origin \in adaptation.sigma0_ref_.offsets

\* C16: resetAdaptationRatios keeps the kernel type it finds: the kernel it
\* installs, and the kernel sigma0_ref_ is computed with, have the type of the
\* kernel installed before the call.
C16_ResetKeepsKernelType ==
    [][call'.op = "resetAdaptationRatios" /\ call'.valid =>
         /\ adaptation'.kernel_ptr_.type = adaptation.kernel_ptr_.type
         /\ adaptation'.sigma0_ref_.kernel.type = adaptation.kernel_ptr_.type]_vars

\* C17: when minimum_volume_ exceeds 2.5 * Eps, no volume passes both
\* isSplitAllowed and mergeResolutionCheck: a volume that passed one of them
\* fails the other, asked in the same state.
C17_SplitAndMergeExclusive ==
    variant = "ParticleSplitAndMerge"
    /\ RLess(RMul(Rat(5, 2), Eps), adaptation.minimum_volume_) =>
        /\ call.op = "isSplitAllowed" /\ call.result = TRUE =>
             ~mergeResolutionCheck(adaptation, call.volume)
        /\ call.op = "mergeResolutionCheck" /\ call.result = TRUE =>
             ~isSplitAllowed(adaptation, call.volume)

\* with minimum_volume_ above 2.5 * Eps, a volume below twice the minimum
\* volume was allowed to split, within the tolerance
C17_Witness ==
    /\ call.op = "isSplitAllowed"
    /\ call.result = TRUE
    /\ RLess(RMul(Rat(5, 2), Eps), adaptation.minimum_volume_)
    /\ RLess(call.volume, RMul(Two, adaptation.minimum_volume_))

\* C18: in every state of a ParticleSplitAndMerge policy of level L,
\* maximum_volume_ = 2^L * minimum_volume_ and
\* spacing_min_ = spacing_ref_ / 2^(L / Dimensions).
C18_EachLevelHalvesTheVolume ==
    variant = "ParticleSplitAndMerge" =>
        \E L \in {adaptation.local_refinement_level_} :
            /\ adaptation.maximum_volume_ = RMul(Rat(Pow2(L), 1), adaptation.minimum_volume_)
            /\ adaptation.spacing_min_ = RDiv(adaptation.spacing_ref_, Real(1, 1, L))

\* a ParticleSplitAndMerge policy of level 2 was rescaled by a reset
C18_Witness ==
    /\ variant = "ParticleSplitAndMerge"
    /\ call.op = "resetAdaptationRatios"
    /\ call.valid
    /\ call.ratio = Two
    /\ adaptation.local_refinement_level_ = 2

\* C19: on a policy with positive ratios, createLevelSet estimates
\* total_levels >= 2 for every shape of positive minimum dimension.
C19_AtLeastTwoLevels ==
    call.op = "createLevelSet" /\ call.valid => call.result >= 2

\* ------------------------------------------------ BodyPartsToRealBodies
MaxParts == 3

\* the bodies of the system: a RealBody carries particles, any other SPHBody
\* cannot be cast to RealBody
Bodies == {[name |-> "water", real |-> TRUE], [name |-> "wall", real |-> TRUE],
           [name |-> "observer", real |-> FALSE]}

\* a BodyPart and the body it was taken from (BodyPart::getSPHBody)
BodyParts == {[sph_body_ |-> b] : b \in Bodies}

getSPHBody(part) == part.sph_body_

BodyPartVectors == UNION {[1..n -> BodyParts] : n \in 0..MaxParts}

\* DynamicCast<RealBody>(owner, casted): the pointer for a RealBody; for any
\* other body the cast has no RealBody to give, and either hands back nullptr
\* or ends the program
nullptr == [name |-> "nullptr", real |-> FALSE]

DynamicCast(casted) ==
    IF casted.real
    THEN {[exit |-> FALSE, tmp |-> casted]}
    ELSE {[exit |-> FALSE, tmp |-> nullptr], [exit |-> TRUE, tmp |-> nullptr]}

\* one pass of the loop: k != body_parts.size(), push_back of the cast, ++k
ConvertBodyPart ==
    /\ parts_pc = "looping"
    /\ parts_k # Len(body_parts)
    /\ \E cast \in DynamicCast(getSPHBody(body_parts[parts_k + 1])) :
         IF cast.exit
         THEN /\ parts_pc' = "exited"
              /\ UNCHANGED <<real_bodies, parts_k>>
         ELSE /\ real_bodies' = Append(real_bodies, cast.tmp)
              /\ parts_k' = parts_k + 1
              /\ parts_pc' = parts_pc
    /\ UNCHANGED body_parts

\* the loop is over: return real_bodies
ReturnRealBodies ==
    /\ parts_pc = "looping"
    /\ parts_k = Len(body_parts)
    /\ parts_pc' = "returned"
    /\ UNCHANGED <<body_parts, real_bodies, parts_k>>

InitParts ==
    /\ body_parts \in BodyPartVectors
    /\ real_bodies = <<>>
    /\ parts_k = 0
    /\ parts_pc = "looping"
    /\ IdleRelation
    /\ IdleAdaptation

NextParts ==
    \/ ConvertBodyPart /\ UNCHANGED <<rel_vars, adapt_vars>>
    \/ ReturnRealBodies /\ UNCHANGED <<rel_vars, adapt_vars>>

SpecParts == InitParts /\ [][NextParts]_vars

\* the real bodies among the parts, in order
RECURSIVE RealBodiesAmong(_)
RealBodiesAmong(parts) ==
    IF parts = <<>> THEN <<>>
    ELSE IF getSPHBody(Head(parts)).real
         THEN <<getSPHBody(Head(parts))>> \o RealBodiesAmong(Tail(parts))
         ELSE RealBodiesAmong(Tail(parts))

\* C7: BodyPartsToRealBodies always returns, and what it returns is, in
\* order, exactly the real bodies among the parts it was given.
C7_ReturnsTheRealBodiesAmongTheParts ==
    /\ parts_pc # "exited"
    /\ parts_pc = "returned" => real_bodies = RealBodiesAmong(body_parts)

====
